---- MODULE Spec2Model ----
(***************************************************************************)
(* Model of shapely/geometry/multipolygon.py: the two collection           *)
(* assemblers (geos_multipolygon_from_polygons, geos_multipolygon_from_py),*)
(* the MultiPolygon constructor and the MultiPolygonAdapter, over an       *)
(* abstract GEOS heap of polygon and collection handles; and of the WKT    *)
(* boundary exercised by shapely/tests/test_linestring.py.                 *)
(***************************************************************************)
EXTENDS Integers, Sequences, FiniteSets, TLC

VARIABLES
    heap,      \* GEOS heap: handle -> geometry record (live handles only)
    last,      \* the last call made by the caller and how it ended
    mp,        \* the MultiPolygon object under construction / constructed
    adapter,   \* the MultiPolygonAdapter object
    context,   \* the caller's object the adapter refers to (caller-mutable)
    nreads,    \* handle-backed reads made on the adapter so far
    nresolved, \* runs of the adapter's factory so far
    mutated,   \* the caller has mutated the context since the adapter was made
    line,      \* WKT boundary: the LineString's coordinates
    text,      \* WKT boundary: the text last dumped
    loaded     \* WKT boundary: the geometry last loaded from `text`

vars == <<heap, last, mp, adapter, context, nreads, nresolved, mutated,
          line, text, loaded>>

(***************************************************************************)
(* Bounds of the model.                                                    *)
(***************************************************************************)
MaxParts == 2
MaxReads == 2
MaxPoints == 4

NULL == 0

(***************************************************************************)
(* Sample coordinate data.  A coordinate is a tuple of numbers, a ring a   *)
(* sequence of coordinates.                                                *)
(***************************************************************************)
R2 == << <<0, 0>>, <<0, 1>> >>
R3 == << <<0, 0, 5>>, <<0, 1, 5>> >>
R1 == << <<7>> >>
REmpty == << >>
H2 == << <<2, 2>>, <<2, 3>> >>

(***************************************************************************)
(* Polygon-like inputs.  shape "pair" is the tuple (shell, holes) of the   *)
(* 'polygons' context type, of Python length len; shape "geo" is the       *)
(* geo-interface tuple (shell, hole, hole, ...); shape "object" is an      *)
(* object that is not indexable and may have the attributes exterior and   *)
(* interiors.  arr says that the shell is an array with the array          *)
(* protocol (__array_interface__); ndim is the _ndim attribute of an       *)
(* object (tuples have none).                                              *)
(***************************************************************************)
Pair(shell, holes) ==
    [shape |-> "pair", len |-> 2, shell |-> shell, holes |-> holes,
     hasExterior |-> FALSE, hasInteriors |-> FALSE, arr |-> FALSE, ndim |-> 0]
ShellOnly(shell) ==
    [shape |-> "pair", len |-> 1, shell |-> shell, holes |-> << >>,
     hasExterior |-> FALSE, hasInteriors |-> FALSE, arr |-> FALSE, ndim |-> 0]
ArrayPair(shell, holes) ==
    [shape |-> "pair", len |-> 2, shell |-> shell, holes |-> holes,
     hasExterior |-> FALSE, hasInteriors |-> FALSE, arr |-> TRUE, ndim |-> 0]
Geo(shell, holes) ==
    [shape |-> "geo", len |-> 1 + Len(holes), shell |-> shell, holes |-> holes,
     hasExterior |-> FALSE, hasInteriors |-> FALSE, arr |-> FALSE, ndim |-> 0]
Obj(exterior, interiors) ==
    [shape |-> "object", len |-> 0, shell |-> exterior, holes |-> interiors,
     hasExterior |-> TRUE, hasInteriors |-> TRUE, arr |-> FALSE,
     ndim |-> Len(exterior[1])]
ObjNoInteriors(exterior) ==
    [shape |-> "object", len |-> 0, shell |-> exterior, holes |-> << >>,
     hasExterior |-> TRUE, hasInteriors |-> FALSE, arr |-> FALSE,
     ndim |-> Len(exterior[1])]
ObjNoExterior(interiors) ==
    [shape |-> "object", len |-> 0, shell |-> << >>, holes |-> interiors,
     hasExterior |-> FALSE, hasInteriors |-> TRUE, arr |-> FALSE,
     ndim |-> Len(interiors[1][1])]

PolygonsParts ==
    {Pair(s, h) : s \in {R2, R3, R1}, h \in {<< >>, <<H2>>}}
    \cup {Pair(REmpty, << >>), ShellOnly(R2)}
    \cup {Obj(s, h) : s \in {R2, R3}, h \in {<< >>, <<H2>>}}
    \cup {ObjNoInteriors(R2), ObjNoExterior(<<H2>>)}

GeoParts ==
    {Geo(s, h) : s \in {R2, R3, R1, REmpty}, h \in {<< >>, <<H2>>, <<H2, R2>>}}

AdapterPolygonsParts ==
    {ArrayPair(R2, <<H2>>), Pair(R3, << >>), Pair(R1, << >>)}

AdapterGeoParts ==
    {Geo(R2, <<H2>>), Geo(R3, << >>), Geo(R1, << >>)}

SeqsUpTo(S, n) == UNION {[1..k -> S] : k \in 0..n}

(***************************************************************************)
(* The caller's argument: None, a plain sequence of polygon-likes, or an   *)
(* object with a geoms attribute (iterating it yields its geoms).          *)
(***************************************************************************)
None == [isNone |-> TRUE, hasGeoms |-> FALSE, items |-> << >>]
List(parts) == [isNone |-> FALSE, hasGeoms |-> FALSE, items |-> parts]
Multi(parts) == [isNone |-> FALSE, hasGeoms |-> TRUE, items |-> parts]

PolygonsInputs ==
    {List(s) : s \in SeqsUpTo(PolygonsParts, MaxParts)}
    \cup {Multi(s) : s \in SeqsUpTo({Obj(R2, << >>), Obj(R3, <<H2>>)}, MaxParts)}
GeoInputs == {List(s) : s \in SeqsUpTo(GeoParts, MaxParts)}
AdapterPolygonsContexts ==
    {List(s) : s \in SeqsUpTo(AdapterPolygonsParts, MaxParts)}
AdapterGeoContexts == {List(s) : s \in SeqsUpTo(AdapterGeoParts, MaxParts)}

ContextTypes == {"polygons", "geojson", "other"}
InputsOf(context_type) ==
    IF context_type = "geojson" THEN GeoInputs ELSE PolygonsInputs
ContextsOf(context_type) ==
    IF context_type = "geojson" THEN AdapterGeoContexts
    ELSE AdapterPolygonsContexts

(***************************************************************************)
(* The GEOS heap.  A handle is a positive number, NULL is 0.               *)
(***************************************************************************)
MultiPolygonType == 6

EmptyHeap == << >>
Alloc(h) ==
    CHOOSE i \in 1..(Cardinality(DOMAIN h) + 1) :
        /\ i \notin DOMAIN h
        /\ \A j \in 1..(i - 1) : j \in DOMAIN h

\* type is the discriminator given to createCollection (0: not a collection)
PolygonGeom(shell, holes) ==
    [kind |-> "polygon", type |-> 0, shell |-> shell, holes |-> holes,
     subs |-> << >>]
CollectionGeom(type, subs) ==
    [kind |-> "collection", type |-> type, shell |-> << >>, holes |-> << >>,
     subs |-> subs]

ValidCoord(c) == Len(c) = 2 \/ Len(c) = 3
ValidRing(r) == r # << >> /\ \A i \in 1..Len(r) : ValidCoord(r[i])

\* geos_polygon_from_py(shell, holes): one polygon handle and its dimension,
\* or a failure.
geos_polygon_from_py(shell, holes, h) ==
    IF ValidRing(shell) /\ \A i \in 1..Len(holes) : ValidRing(holes[i])
    THEN LET g == Alloc(h)
         IN  [ok |-> TRUE, err |-> "", geom |-> g, ndims |-> Len(shell[1]),
              heap |-> h @@ (g :> PolygonGeom(shell, holes))]
    ELSE [ok |-> FALSE, err |-> "RingBuilderError", geom |-> NULL, ndims |-> 0,
          heap |-> h]

\* lgeos.GEOSGeom_createCollection(type, subs, L)
GEOSGeom_createCollection(type, subs, L, h) ==
    LET g == Alloc(h)
    IN  [geom |-> g,
         heap |-> h @@ (g :> CollectionGeom(type, SubSeq(subs, 1, L)))]

(***************************************************************************)
(* Results of an assembler call.                                           *)
(***************************************************************************)
Raise(e, h, subs) ==
    [status |-> "raised", err |-> e, geom |-> NULL, N |-> 0, heap |-> h,
     subs |-> subs]
Return(g, n, h, subs) ==
    [status |-> "ok", err |-> "", geom |-> g, N |-> n, heap |-> h,
     subs |-> subs]

\* subs = (c_void_p * L)()
NewSubs(L) == [i \in 1..L |-> NULL]
\* subs[l] = cast(geom, c_void_p)   (l counted from 1 here)
StoreSubFirst(subs, l, geom) == [subs EXCEPT ![1] = geom]
StoreSub(subs, l, geom) == [subs EXCEPT ![l] = geom]

\* assert L >= 1
AssertL(L) == L >= 1
\* what a failed `assert L >= 1` does
EmptyInputCollection(h) ==
    LET c == GEOSGeom_createCollection(MultiPolygonType, << >>, 0, h)
    IN  Return(c.geom, 0, c.heap, << >>)
EmptyInput(h) == Raise("AssertionError", h, << >>)
\* assert N == 2 or N == 3
AssertNOnly3(N) == N = 3
AssertN(N) == N = 2 \/ N = 3

(***************************************************************************)
(* geos_multipolygon_from_py                                               *)
(***************************************************************************)
\* N = len(ob[0][0][0])
PyN(first) ==
    IF first.shape = "object" THEN [ok |-> FALSE, err |-> "TypeError", n |-> 0]
    ELSE IF first.shell = << >>
    THEN [ok |-> FALSE, err |-> "IndexError", n |-> 0]
    ELSE [ok |-> TRUE, err |-> "", n |-> Len(first.shell[1])]

\* the arguments ob[l][0], ob[l][1:] of the polygon builder
PyShellHoles(p) ==
    IF p.shape = "object"
    THEN [ok |-> FALSE, err |-> "TypeError", shell |-> << >>, holes |-> << >>]
    ELSE [ok |-> TRUE, err |-> "", shell |-> p.shell, holes |-> p.holes]

RECURSIVE PyLoop(_, _, _, _)
PyLoop(ob, l, h, subs) ==
    IF l > Len(ob) THEN [ok |-> TRUE, err |-> "", heap |-> h, subs |-> subs]
    ELSE LET a == PyShellHoles(ob[l])
         IN  IF ~a.ok
             THEN [ok |-> FALSE, err |-> a.err, heap |-> h, subs |-> subs]
             ELSE LET b == geos_polygon_from_py(a.shell, a.holes, h)
                  IN  IF ~b.ok
                      THEN [ok |-> FALSE, err |-> b.err, heap |-> h,
                            subs |-> subs]
                      ELSE PyLoop(ob, l + 1, b.heap,
                                  StoreSub(subs, l, b.geom))

geos_multipolygon_from_py(ob, h) ==
    LET L == Len(ob.items)
    IN  IF ~AssertL(L) THEN EmptyInput(h)
        ELSE LET n == PyN(ob.items[1])
             IN  IF ~n.ok THEN Raise(n.err, h, << >>)
                 ELSE IF ~AssertN(n.n) THEN Raise("AssertionError", h, << >>)
                 ELSE LET r == PyLoop(ob.items, 1, h, NewSubs(L))
                      IN  IF ~r.ok THEN Raise(r.err, r.heap, r.subs)
                          ELSE LET c == GEOSGeom_createCollection(
                                            MultiPolygonType, r.subs, L, r.heap)
                               IN  Return(c.geom, n.n, c.heap, r.subs)

(***************************************************************************)
(* geos_multipolygon_from_polygons                                         *)
(***************************************************************************)
\* obs = getattr(ob, 'geoms', None) or ob
\* (items holds the geoms of an object that has geoms; with no geoms, or with
\* an empty geoms, ob itself is used, and items is what ob holds)
Obs(ob) == IF ob.hasGeoms /\ ob.items # << >> THEN ob.items ELSE ob.items

\* exemplar = obs[0]
ExemplarLast(obs) == obs[Len(obs)]
Exemplar(obs) == obs[1]

\* try: N = len(exemplar[0][0])  except TypeError: N = exemplar._ndim
ExemplarN(exemplar) ==
    IF exemplar.shape = "object"
    THEN [ok |-> TRUE, err |-> "", n |-> exemplar.ndim]
    ELSE IF exemplar.shell = << >>
    THEN [ok |-> FALSE, err |-> "IndexError", n |-> 0]
    ELSE [ok |-> TRUE, err |-> "", n |-> Len(exemplar.shell[1])]

\* obs[l][i] for i = 0, 1
Item(p, i) ==
    IF p.shape = "object" THEN [ok |-> FALSE, err |-> "TypeError", v |-> << >>]
    ELSE IF i >= p.len THEN [ok |-> FALSE, err |-> "IndexError", v |-> << >>]
    ELSE [ok |-> TRUE, err |-> "", v |-> IF i = 0 THEN p.shell ELSE p.holes]

\* shell = getattr(obs[l], 'exterior', None); if shell is None: shell = obs[l][0]
ShellOf(p) ==
    IF p.hasExterior THEN [ok |-> TRUE, err |-> "", v |-> p.shell]
    ELSE Item(p, 0)

\* holes = getattr(obs[l], 'interiors', None); if holes is None: holes = obs[l][1]
HolesOfElseEmpty(p) ==
    IF p.hasInteriors THEN [ok |-> TRUE, err |-> "", v |-> p.holes]
    ELSE IF p.hasExterior THEN [ok |-> TRUE, err |-> "", v |-> << >>]
    ELSE Item(p, 1)
HolesOf(p) ==
    IF p.hasInteriors THEN [ok |-> TRUE, err |-> "", v |-> p.holes]
    ELSE Item(p, 1)

RECURSIVE PolygonsLoop(_, _, _, _)
PolygonsLoop(obs, l, h, subs) ==
    IF l > Len(obs) THEN [ok |-> TRUE, err |-> "", heap |-> h, subs |-> subs]
    ELSE LET shell == ShellOf(obs[l])
             holes == HolesOf(obs[l])
         IN  IF ~shell.ok
             THEN [ok |-> FALSE, err |-> shell.err, heap |-> h, subs |-> subs]
             ELSE IF ~holes.ok
             THEN [ok |-> FALSE, err |-> holes.err, heap |-> h, subs |-> subs]
             ELSE LET b == geos_polygon_from_py(shell.v, holes.v, h)
                  IN  IF ~b.ok
                      THEN [ok |-> FALSE, err |-> b.err, heap |-> h,
                            subs |-> subs]
                      ELSE PolygonsLoop(obs, l + 1, b.heap,
                                        StoreSub(subs, l, b.geom))

geos_multipolygon_from_polygons(ob, h) ==
    LET obs == Obs(ob)
        L == Len(obs)
    IN  IF ~AssertL(L) THEN EmptyInput(h)
        ELSE LET n == ExemplarN(Exemplar(obs))
             IN  IF ~n.ok THEN Raise(n.err, h, << >>)
                 ELSE IF ~AssertN(n.n) THEN Raise("AssertionError", h, << >>)
                 ELSE LET r == PolygonsLoop(obs, 1, h, NewSubs(L))
                      IN  IF ~r.ok THEN Raise(r.err, r.heap, r.subs)
                          ELSE LET c == GEOSGeom_createCollection(
                                            MultiPolygonType, r.subs, L, r.heap)
                               IN  Return(c.geom, n.n, c.heap, r.subs)

(***************************************************************************)
(* MultiPolygonAdapter._ndim                                               *)
(***************************************************************************)
AdapterNdimCached(ctx) ==
    [ok |-> TRUE, err |-> "", n |-> adapter.dim]
AdapterNdimOf(ctx) ==
    IF Len(ctx.items) = 0 THEN [ok |-> FALSE, err |-> "IndexError", n |-> 0]
    ELSE LET first == ctx.items[1]
         IN  IF first.shape = "object"
             THEN [ok |-> FALSE, err |-> "TypeError", n |-> 0]
             ELSE IF first.arr
             THEN \* array = context[0][0].__array_interface__
                  \* n = array['shape'][1]; assert n == 2 or n == 3
                  LET n == Len(first.shell[1])
                  IN  IF AssertN(n) THEN [ok |-> TRUE, err |-> "", n |-> n]
                      ELSE [ok |-> FALSE, err |-> "AssertionError", n |-> 0]
             ELSE \* except AttributeError: return len(self.context[0][0][0])
                  IF first.shell = << >>
                  THEN [ok |-> FALSE, err |-> "IndexError", n |-> 0]
                  ELSE [ok |-> TRUE, err |-> "", n |-> Len(first.shell[1])]

(***************************************************************************)
(* The WKT boundary (shapely.wkt), as test_linestring.py exercises it.     *)
(* A text is a sequence of characters.                                     *)
(***************************************************************************)
FractionDigits == 16

Points2D == {<<0, 0>>, <<2, 3>>, <<3, 2>>}
Points3D == {<<0, 0, 10>>, <<2, 3, 11>>, <<3, 2, 12>>}
Lines ==
    UNION {[1..k -> Points2D] \cup [1..k -> Points3D] : k \in 2..MaxPoints}

DigitChar(d) == <<"0", "1", "2", "3", "4", "5", "6", "7", "8", "9">>[d + 1]
DigitValue(c) ==
    CHOOSE d \in 0..9 : DigitChar(d) = c

RECURSIVE Digits(_)
Digits(n) ==
    IF n < 10 THEN <<DigitChar(n)>>
    ELSE Digits(n \div 10) \o <<DigitChar(n % 10)>>

\* a number with exactly FractionDigits digits after the decimal point
FormatNumber(n) == Digits(n) \o <<".">> \o [i \in 1..FractionDigits |-> "0"]

RECURSIVE JoinWith(_, _)
JoinWith(parts, sep) ==
    IF Len(parts) = 0 THEN << >>
    ELSE IF Len(parts) = 1 THEN parts[1]
    ELSE parts[1] \o sep \o JoinWith(Tail(parts), sep)

FormatPoint(pt) == JoinWith([i \in 1..Len(pt) |-> FormatNumber(pt[i])], <<" ">>)

\* a closed line of 4 or more points is written as a ring
IsClosed(coords) == coords[1] = coords[Len(coords)]
IsRing(coords) == Len(coords) >= 4 /\ coords[1] = coords[Len(coords)]

LinearRingTag == <<"L", "I", "N", "E", "A", "R", "R", "I", "N", "G">>
LineStringTag == <<"L", "I", "N", "E", "S", "T", "R", "I", "N", "G">>

TagOf(coords) == IF IsRing(coords) THEN LinearRingTag ELSE LineStringTag

\* wkt.dumps(ls)
WktDumps(coords) ==
    TagOf(coords) \o <<" ", "(">>
    \o JoinWith([i \in 1..Len(coords) |-> FormatPoint(coords[i])], <<",", " ">>)
    \o <<")">>

\* wkt.loads(text)
RECURSIVE SplitOn(_, _)
SplitOn(s, c) ==
    IF \A i \in 1..Len(s) : s[i] # c THEN <<s>>
    ELSE LET k == CHOOSE i \in 1..Len(s) :
                      s[i] = c /\ \A j \in 1..(i - 1) : s[j] # c
         IN  <<SubSeq(s, 1, k - 1)>> \o SplitOn(SubSeq(s, k + 1, Len(s)), c)

RECURSIVE ParseInt(_)
ParseInt(s) ==
    IF Len(s) = 0 THEN 0
    ELSE 10 * ParseInt(SubSeq(s, 1, Len(s) - 1)) + DigitValue(s[Len(s)])

RECURSIVE StripZeros(_)
StripZeros(s) ==
    IF Len(s) > 0 /\ s[Len(s)] = "0" THEN StripZeros(SubSeq(s, 1, Len(s) - 1))
    ELSE s

\* the value of a decimal numeral: its integer part and the digits of its
\* fraction, trailing zeros dropped
ParseNumber(s) ==
    LET halves == SplitOn(s, ".")
    IN  [int |-> ParseInt(halves[1]),
         frac |-> IF Len(halves) > 1 THEN StripZeros(halves[2]) ELSE << >>]

ParsePoint(s) ==
    LET words == SelectSeq(SplitOn(s, " "), LAMBDA w : w # << >>)
    IN  [i \in 1..Len(words) |-> ParseNumber(words[i])]

WktLoads(t) ==
    LET open == CHOOSE i \in 1..Len(t) :
                    t[i] = "(" /\ \A j \in 1..(i - 1) : t[j] # "("
        tag == SelectSeq(SubSeq(t, 1, open - 1), LAMBDA ch : ch # " ")
        body == SubSeq(t, open + 1, Len(t) - 1)
        pts == SplitOn(body, ",")
    IN  [type |-> IF tag = LinearRingTag THEN "LinearRing" ELSE "LineString",
         coords |-> [i \in 1..Len(pts) |-> ParsePoint(pts[i])]]

\* the geometry a LineString of integer coordinates is
LineString(coords) ==
    [type |-> "LineString",
     coords |-> [i \in 1..Len(coords) |->
                    [j \in 1..Len(coords[i]) |->
                        [int |-> coords[i][j], frac |-> << >>]]]]

\* a.equals(b): the same points in the same order, whatever the two types
GeomEquals(a, b) == a.coords = b.coords

NoGeom == [type |-> "", coords |-> << >>]

(***************************************************************************)
(* State                                                                   *)
(***************************************************************************)
NoCall ==
    [op |-> "none", ob |-> None, context_type |-> "", status |-> "",
     err |-> "", geom |-> NULL, N |-> 0, subs |-> << >>]
Call(op, ob, context_type, r) ==
    [op |-> op, ob |-> ob, context_type |-> context_type, status |-> r.status,
     err |-> r.err, geom |-> r.geom, N |-> r.N, subs |-> r.subs]

NoMultiPolygon == [made |-> FALSE, geom |-> NULL, ndim |-> 0]
NoAdapter ==
    [made |-> FALSE, context_type |-> "", factory |-> "None", geom |-> NULL,
     dim |-> 0]

InitCore ==
    /\ heap = EmptyHeap
    /\ last = NoCall
    /\ mp = NoMultiPolygon
    /\ adapter = NoAdapter
    /\ context = None
    /\ nreads = 0
    /\ nresolved = 0
    /\ mutated = FALSE

InitWkt ==
    /\ line = << >>
    /\ text = << >>
    /\ loaded = NoGeom

Init == InitCore /\ InitWkt

\* Nothing has been called on the engine yet.  A behaviour follows one
\* direct call, one constructed MultiPolygon, or the life of one adapter,
\* from an engine with no live handle.
Fresh == last.op = "none" /\ ~adapter.made

wktVars == <<line, text, loaded>>
adapterVars == <<adapter, context, nreads, nresolved, mutated>>

(***************************************************************************)
(* Direct calls of the two assemblers                                      *)
(***************************************************************************)
CallFromPolygons(ob) ==
    /\ Fresh
    /\ LET r == geos_multipolygon_from_polygons(ob, heap)
       IN  /\ heap' = r.heap
           /\ last' = Call("from_polygons", ob, "polygons", r)
    /\ UNCHANGED <<mp, adapterVars, wktVars>>

CallFromPy(ob) ==
    /\ Fresh
    /\ LET r == geos_multipolygon_from_py(ob, heap)
       IN  /\ heap' = r.heap
           /\ last' = Call("from_py", ob, "geojson", r)
    /\ UNCHANGED <<mp, adapterVars, wktVars>>

(***************************************************************************)
(* MultiPolygon.__init__(polygons, context_type)                           *)
(***************************************************************************)
\* the truth value of the argument: None and an empty sequence are false
Truthy(polygons) == ~polygons.isNone /\ Len(polygons.items) > 0

MultiPolygonInit(polygons, context_type, h) ==
    IF ~Truthy(polygons) THEN Return(NULL, 0, h, << >>)
    ELSE IF context_type = "polygons"
    THEN geos_multipolygon_from_polygons(polygons, h)
    ELSE IF context_type = "geojson"
    THEN geos_multipolygon_from_py(polygons, h)
    ELSE Return(NULL, 0, h, << >>)

NewMultiPolygon(polygons, context_type) ==
    /\ Fresh
    /\ LET r == MultiPolygonInit(polygons, context_type, heap)
       IN  /\ heap' = r.heap
           /\ last' = Call("MultiPolygon", polygons, context_type, r)
           /\ mp' = IF r.status = "ok"
                    THEN [made |-> TRUE, geom |-> r.geom, ndim |-> r.N]
                    ELSE mp
    /\ UNCHANGED <<adapterVars, wktVars>>

(***************************************************************************)
(* MultiPolygonAdapter                                                     *)
(***************************************************************************)
\* MultiPolygonAdapter.__init__(context, context_type)
FactoryOf(context_type) ==
    IF context_type = "geojson" THEN "geos_multipolygon_from_py"
    ELSE IF context_type = "polygons" THEN "geos_multipolygon_from_polygons"
    ELSE "None"

NewAdapter(ctx, context_type) ==
    /\ Fresh
    /\ adapter' = [made |-> TRUE, context_type |-> context_type,
                   factory |-> FactoryOf(context_type), geom |-> NULL,
                   dim |-> 0]
    /\ context' = ctx
    /\ last' = [NoCall EXCEPT !.op = "MultiPolygonAdapter", !.ob = ctx,
                              !.context_type = context_type, !.status = "ok"]
    /\ UNCHANGED <<heap, mp, nreads, nresolved, mutated, wktVars>>

\* self.factory(self.context)
RunFactory(factory, ctx, h) ==
    IF factory = "geos_multipolygon_from_py"
    THEN geos_multipolygon_from_py(ctx, h)
    ELSE IF factory = "geos_multipolygon_from_polygons"
    THEN geos_multipolygon_from_polygons(ctx, h)
    ELSE Raise("TypeError", h, << >>)

\* The cache of the proxy after a run of the factory that ended as r.
CacheAfter(a, r) ==
    IF r.status = "ok" THEN [a EXCEPT !.geom = r.geom, !.dim = r.N] ELSE a

\* A read that needs the handle (the _geom property of the proxy): the first
\* one resolves, a later one uses the cache.
AdapterGeom ==
    /\ adapter.made
    /\ nreads < MaxReads
    /\ nreads' = nreads + 1
    /\ IF adapter.geom = NULL
       THEN LET r == RunFactory(adapter.factory, context, heap)
            IN  /\ heap' = r.heap
                /\ adapter' = CacheAfter(adapter, r)
                /\ nresolved' = nresolved + 1
                /\ last' = Call("_geom", context, "", r)
       ELSE /\ last' = Call("_geom", context, "",
                            Return(adapter.geom, adapter.dim, heap, << >>))
            /\ UNCHANGED <<heap, adapter, nresolved>>
    /\ UNCHANGED <<mp, context, mutated, wktVars>>

\* A read of the dimensionality (the _ndim property).
AdapterNdim ==
    /\ adapter.made
    /\ LET n == AdapterNdimOf(context)
       IN  last' = Call("_ndim", context, "",
                        IF n.ok THEN Return(NULL, n.n, heap, << >>)
                        ELSE Raise(n.err, heap, << >>))
    /\ UNCHANGED <<heap, mp, adapterVars, wktVars>>

\* The caller changes the object the adapter refers to: context[i] = p,
\* context.append(p), context.pop().
Mutated(ctx) ==
    /\ context' = ctx
    /\ mutated' = TRUE
    /\ last' = [NoCall EXCEPT !.op = "mutate", !.ob = ctx, !.status = "ok"]
    /\ UNCHANGED <<heap, mp, adapter, nreads, nresolved, wktVars>>

AdapterParts(context_type) ==
    IF context_type = "geojson" THEN AdapterGeoParts ELSE AdapterPolygonsParts

SetPart(i, p) ==
    /\ adapter.made
    /\ i \in 1..Len(context.items)
    /\ context.items[i] # p
    /\ Mutated([context EXCEPT !.items[i] = p])

AppendPart(p) ==
    /\ adapter.made
    /\ Len(context.items) < MaxParts
    /\ Mutated([context EXCEPT !.items = Append(@, p)])

PopPart ==
    /\ adapter.made
    /\ Len(context.items) > 0
    /\ Mutated([context EXCEPT !.items = SubSeq(@, 1, Len(@) - 1)])

Next ==
    \/ Fresh /\ \E ob \in PolygonsInputs : CallFromPolygons(ob)
    \/ Fresh /\ \E ob \in GeoInputs : CallFromPy(ob)
    \/ Fresh /\ \E t \in ContextTypes :
                    \E ob \in InputsOf(t) \cup {None} : NewMultiPolygon(ob, t)
    \/ Fresh /\ \E t \in ContextTypes :
                    \E c \in ContextsOf(t) : NewAdapter(c, t)
    \/ AdapterGeom
    \/ AdapterNdim
    \/ adapter.made /\ \E i \in 1..MaxParts :
           \E p \in AdapterParts(adapter.context_type) : SetPart(i, p)
    \/ adapter.made /\ \E p \in AdapterParts(adapter.context_type) :
           AppendPart(p)
    \/ PopPart

Spec == Init /\ [][Next]_vars

(***************************************************************************)
(* Vocabulary of the properties                                            *)
(***************************************************************************)
\* The last call ran an assembler on a caller-given argument.
AssemblerCall ==
    \/ last.op \in {"from_polygons", "from_py"}
    \/ /\ last.op = "MultiPolygon"
       /\ Truthy(last.ob)
       /\ last.context_type \in {"polygons", "geojson"}

DirectCall == last.op \in {"from_polygons", "from_py"}

\* A well-formed polygon part of a context type: a (shell, holes) pair or an
\* object with exterior and interiors for 'polygons', a geo-interface tuple
\* for 'geojson'; every ring non-empty with coordinates of length 2 or 3.
WellFormedPart(p, context_type) ==
    /\ ValidRing(p.shell)
    /\ \A i \in 1..Len(p.holes) : ValidRing(p.holes[i])
    /\ context_type = "polygons" =>
           \/ p.shape = "pair" /\ p.len = 2
           \/ p.shape = "object" /\ p.hasExterior /\ p.hasInteriors
    /\ context_type = "geojson" => p.shape = "geo"

WellFormed(ob, context_type) ==
    /\ context_type \in {"polygons", "geojson"}
    /\ ~ob.isNone
    /\ Len(ob.items) >= 1
    /\ \A i \in 1..Len(ob.items) : WellFormedPart(ob.items[i], context_type)

(***************************************************************************)
(* C1: for every non-empty sequence of well-formed parts, in both modes,   *)
(* the assembled collection has exactly L parts and part i is the polygon  *)
(* built from the shell and holes given at input index i.                  *)
(***************************************************************************)
C1_OrderPreserved ==
    (AssemblerCall /\ WellFormed(last.ob, last.context_type)) =>
        /\ last.status = "ok"
        /\ last.geom \in DOMAIN heap
        /\ heap[last.geom].kind = "collection"
        /\ LET subs == heap[last.geom].subs
               items == last.ob.items
           IN  /\ Len(subs) = Len(items)
               /\ \A i \in 1..Len(items) :
                      /\ subs[i] \in DOMAIN heap
                      /\ heap[subs[i]].kind = "polygon"
                      /\ heap[subs[i]].shell = items[i].shell
                      /\ heap[subs[i]].holes = items[i].holes

C1_Witness ==
    /\ DirectCall
    /\ last.status = "ok"
    /\ Len(last.ob.items) = 2
    /\ last.ob.items[1].shell # last.ob.items[2].shell
    /\ last.ob.items[2].holes # << >>
    /\ heap[heap[last.geom].subs[2]].shell = last.ob.items[2].shell

(***************************************************************************)
(* C2: a failure on part k >= 1 releases the handles built for parts       *)
(* 0..k-1: after the failed call no part handle built by it is live.       *)
(***************************************************************************)
BuiltBy(call) == {call.subs[i] : i \in DOMAIN call.subs} \ {NULL}

\* C2: after a call that failed on a part k >= 1, none of the part handles
\* it built is still live, and no collection handle was made.
C2_PartialReleased ==
    (last.status = "raised" /\ BuiltBy(last) # {}) =>
        /\ BuiltBy(last) \cap DOMAIN heap = {}
        /\ last.geom = NULL

(***************************************************************************)
(* C4: assembling an empty part list through either assembler raises and   *)
(* creates no engine handle.                                               *)
(***************************************************************************)
C4_EmptyRaises ==
    (DirectCall /\ Len(last.ob.items) = 0) =>
        /\ last.status = "raised"
        /\ last.geom = NULL
        /\ heap = EmptyHeap

C4_Witness ==
    /\ last.op = "from_py"
    /\ Len(last.ob.items) = 0
    /\ last.status = "raised"

(***************************************************************************)
(* C6: a successful assembly returns N = the length of the first           *)
(* coordinate of the first part's shell, N is 2 or 3, whatever the later   *)
(* parts are; a first coordinate of any other length makes the call fail.  *)
(***************************************************************************)
C6_Dimensionality ==
    (AssemblerCall /\ Len(last.ob.items) >= 1) =>
        LET shell == last.ob.items[1].shell
        IN  /\ last.status = "ok" =>
                   /\ shell # << >>
                   /\ last.N = Len(shell[1])
                   /\ last.N \in {2, 3}
            /\ (shell # << >> /\ Len(shell[1]) \notin {2, 3}) =>
                   last.status = "raised"

C6_Witness ==
    /\ AssemblerCall
    /\ last.status = "ok"
    /\ Len(last.ob.items) = 2
    /\ last.N = 2
    /\ Len(last.ob.items[2].shell[1]) = 3

(***************************************************************************)
(* C3: over a context that is not mutated, the first read of the adapter   *)
(* triggers exactly one resolution and every later read none: the          *)
(* resolution counter is 0 before the first read and 1 ever after.         *)
(***************************************************************************)
\* Some read operation has been made on the adapter (while the context is
\* not mutated, the last call is the construction or a read).
HasRead == nreads > 0 \/ (last.op = "_ndim" /\ last.status = "ok")

\* C3 as claimed: any read counts, over any context that is not mutated.
C3_OneResolutionAnyRead ==
    (adapter.made /\ ~mutated) => nresolved = (IF HasRead THEN 1 ELSE 0)

\* C3 as amended: over a context that is not mutated and that the assembler
\* accepts, the first read that needs the handle resolves once and later
\* reads never; reads of the dimensionality do not count (they never
\* resolve); over a context the assembler rejects, every read that needs the
\* handle is a new attempt.
C3_OneResolution ==
    (adapter.made /\ ~mutated) =>
        IF WellFormed(context, adapter.context_type)
        THEN /\ nresolved = (IF nreads > 0 THEN 1 ELSE 0)
             /\ nreads > 0 => adapter.geom # NULL
        ELSE /\ nresolved = nreads
             /\ adapter.geom = NULL

C3_Witness ==
    /\ adapter.made
    /\ ~mutated
    /\ WellFormed(context, adapter.context_type)
    /\ nreads = 2
    /\ nresolved = 1
    /\ last.op = "_ndim"

(***************************************************************************)
(* C5: a failed resolution is propagated to the caller of the read and     *)
(* leaves the adapter unresolved with no cached handle, and a later read   *)
(* over a corrected context resolves afresh and succeeds.                  *)
(***************************************************************************)
C5_FailureState ==
    (last.op = "_geom" /\ ~WellFormed(last.ob, adapter.context_type)
       /\ adapter.geom = NULL) =>
        /\ last.status = "raised"
        /\ last.err # ""
        /\ last.geom = NULL

C5_RetryStep ==
    (adapter.made /\ adapter.geom = NULL /\ nreads' = nreads + 1) =>
        /\ nresolved' = nresolved + 1
        /\ IF WellFormed(context, adapter.context_type)
           THEN adapter'.geom # NULL /\ last'.status = "ok"
                /\ last'.geom = adapter'.geom
           ELSE adapter'.geom = NULL /\ last'.status = "raised"

\* C5: both parts, the state after a failed read and the step of a retry.
C5_FailedResolution == []C5_FailureState /\ [][C5_RetryStep]_vars

C5_Witness ==
    /\ adapter.geom # NULL
    /\ mutated
    /\ nresolved = 2
    /\ last.op = "_geom"
    /\ last.status = "ok"

(***************************************************************************)
(* C7: in 'polygons' mode a part with an exterior attribute gives          *)
(* shell = exterior and holes = interiors if present, else empty, and is   *)
(* never indexed; a part without exterior is indexed: shell = p[0],        *)
(* holes = p[1].                                                           *)
(***************************************************************************)
ValidRings(shell, holes) ==
    ValidRing(shell) /\ \A i \in 1..Len(holes) : ValidRing(holes[i])

\* Every part has an exterior, or is a tuple with at least two items.
Normalizable(ob) ==
    /\ Len(ob.items) >= 1
    /\ \A i \in 1..Len(ob.items) :
           LET p == ob.items[i]
           IN  /\ p.hasExterior \/ (p.shape = "pair" /\ p.len = 2)
               /\ ValidRings(p.shell, IF p.hasExterior /\ ~p.hasInteriors
                                      THEN << >> ELSE p.holes)

PolygonsCall ==
    \/ last.op = "from_polygons"
    \/ last.op = "MultiPolygon" /\ Truthy(last.ob)
                                /\ last.context_type = "polygons"

\* C7 as claimed: a part with an exterior and no interiors is built with no
\* holes, without being indexed.
C7_ExteriorElseEmpty ==
    (PolygonsCall /\ Normalizable(last.ob)) =>
        /\ last.status = "ok"
        /\ \A i \in 1..Len(last.ob.items) :
               LET p == last.ob.items[i]
                   g == heap[heap[last.geom].subs[i]]
               IN  /\ g.shell = p.shell
                   /\ g.holes = (IF p.hasExterior /\ ~p.hasInteriors
                                 THEN << >> ELSE p.holes)

\* C7 as amended: the two attributes are looked up independently, and each
\* one that is missing is taken by index: holes = p[1] when there is no
\* interiors, also when there is an exterior (a failure when p cannot be
\* indexed).
C7_IndependentLookups ==
    PolygonsCall =>
        /\ last.status = "ok" =>
               \A i \in 1..Len(last.ob.items) :
                   LET p == last.ob.items[i]
                       g == heap[heap[last.geom].subs[i]]
                   IN  /\ g.shell = p.shell
                       /\ g.holes = p.holes
                       /\ p.hasExterior \/ (p.shape = "pair" /\ p.len >= 1)
                       /\ p.hasInteriors \/ (p.shape = "pair" /\ p.len >= 2)
        /\ (\E i \in 1..Len(last.ob.items) :
                LET p == last.ob.items[i]
                IN  \/ ~p.hasExterior /\ p.shape = "object"
                    \/ ~p.hasInteriors /\ p.shape = "object"
                    \/ ~p.hasInteriors /\ p.shape = "pair" /\ p.len < 2)
           => last.status = "raised"

C7_Witness ==
    /\ last.op = "from_polygons"
    /\ last.status = "raised"
    /\ last.err = "TypeError"
    /\ Len(last.ob.items) = 1
    /\ last.ob.items[1].hasExterior
    /\ ~last.ob.items[1].hasInteriors

C9_ProbeState ==
    last.op = "_ndim" =>
        /\ last.status = "ok" =>
               /\ Len(context.items) >= 1
               /\ context.items[1].shell # << >>
               /\ last.N = Len(context.items[1].shell[1])
        /\ (adapter.geom # NULL /\ ~mutated) =>
               last.status = "ok" /\ last.N = adapter.dim

\* A read of the dimensionality never runs the factory nor touches the cache.
C9_ProbeStep ==
    last'.op = "_ndim" =>
        /\ nresolved' = nresolved
        /\ adapter' = adapter
        /\ heap' = heap

C10_HandleIffNonEmpty ==
    (last.op = "MultiPolygon" /\ last.status = "ok") =>
        /\ mp.made
        /\ (mp.geom # NULL) <=> Truthy(last.ob)

(***************************************************************************)
(* The WKT round trip of test_linestring.py: ls = LineString(coords),      *)
(* then wkt.dumps(ls), then wkt.loads of the text.                         *)
(***************************************************************************)
coreVars == <<heap, last, mp, adapterVars>>

InitLine ==
    /\ InitCore
    /\ line \in Lines
    /\ text = << >>
    /\ loaded = NoGeom

Dump ==
    /\ line # << >>
    /\ text = << >>
    /\ text' = WktDumps(line)
    /\ UNCHANGED <<line, loaded, coreVars>>

Load ==
    /\ text # << >>
    /\ loaded = NoGeom
    /\ loaded' = WktLoads(text)
    /\ UNCHANGED <<line, text, coreVars>>

NextWkt == Dump \/ Load

SpecWkt == InitLine /\ [][NextWkt]_vars

(***************************************************************************)
(* C8: a line is written LINEARRING (...) exactly when it has 4 or more    *)
(* points and its first and last coordinates are identical, otherwise      *)
(* LINESTRING (...) (so a 3-point line with distinct ends), in 2D and 3D,  *)
(* and loading the dumped text yields an equal geometry.                   *)
(***************************************************************************)
StartsWith(t, prefix) ==
    Len(t) >= Len(prefix) /\ SubSeq(t, 1, Len(prefix)) = prefix

\* C8: the tag written is LINEARRING exactly for a closed line of 4 or more
\* points, and the text loads back to an equal geometry.
C8_RingTag ==
    /\ text # << >> =>
           /\ StartsWith(text, LinearRingTag \o <<" ", "(">>)
                  <=> (Len(line) >= 4 /\ line[1] = line[Len(line)])
           /\ StartsWith(text, LineStringTag \o <<" ", "(">>)
                  <=> ~(Len(line) >= 4 /\ line[1] = line[Len(line)])
           /\ (Len(line) = 3 /\ line[1] # line[3]) =>
                  StartsWith(text, LineStringTag)
    /\ loaded # NoGeom =>
           /\ Len(loaded.coords) = Len(line)
           /\ \A i \in 1..Len(line) :
                  /\ Len(loaded.coords[i]) = Len(line[i])
                  /\ \A j \in 1..Len(line[i]) :
                         loaded.coords[i][j] = [int |-> line[i][j],
                                                frac |-> << >>]
           /\ GeomEquals(LineString(line), loaded)
           /\ loaded.type = "LinearRing"
                  <=> (Len(line) >= 4 /\ line[1] = line[Len(line)])

\* test_linearring_wkt_3d: the ring of the test, dumped and loaded back
C8_Witness ==
    /\ line = << <<0, 0, 10>>, <<2, 3, 11>>, <<3, 2, 12>>, <<0, 0, 10>> >>
    /\ StartsWith(text, LinearRingTag \o <<" ", "(">>
                        \o <<"0", ".">> \o [i \in 1..16 |-> "0"] \o <<" ">>
                        \o <<"0", ".">> \o [i \in 1..16 |-> "0"] \o <<" ">>
                        \o <<"1", "0", ".">> \o [i \in 1..16 |-> "0"]
                        \o <<",", " ", "2", ".">>)
    /\ text[Len(text)] = ")"
    /\ loaded.type = "LinearRing"
    /\ GeomEquals(LineString(line), loaded)

====
